---- MODULE Spec2Model ----
(***************************************************************************)
(* A model of cidr-converter.go: the IPv4 block algebra (mergeCIDRs,       *)
(* aggregateCIDRs, canAggregate, mergeTwoCIDRs, deduplicateCIDRs,          *)
(* ipBelongsToCIDR), the notation parsers and the stdin pipeline of main.  *)
(*                                                                         *)
(* A net.IP is the sequence of its four bytes, as in Go; a *net.IPNet is   *)
(* [IP |-> <<a,b,c,d>>, ones |-> n], n the number of leading one bits of   *)
(* its Mask (every mask of the program comes from net.CIDRMask, so         *)
(* Mask.Size() is (ones, 32)).  Text is a sequence of one-character        *)
(* strings.                                                                *)
(***************************************************************************)
EXTENDS Integers, Sequences, FiniteSets, TLC

VARIABLES
    pc,        \* which step of the run under study comes next
    cidrs,     \* the batch handed to the block algebra
    deduped,   \* whether deduplicateCIDRs has been applied to cidrs
    merged,    \* mergeCIDRs(...)
    merged2,   \* mergeCIDRs(merged)
    result,    \* aggregateCIDRs(merged)
    result2,   \* aggregateCIDRs(result)
    ipStr,     \* the address text of a membership query
    queried,   \* the block list the query is made against
    matches,   \* what ipBelongsToCIDR returned for it
    text,      \* the text handed to a parser
    parsed,    \* what the parser returned for it
    records,   \* stdin: the lines scanner.Scan() will deliver
    rIdx,      \* reader goroutine: how many lines it has sent on inputChan
    inClosed,  \* close(inputChan) has happened
    pPc,       \* parser goroutine: where it stands
    pLine,     \* parser goroutine: line (after TrimSpace once parsed)
    pWild,     \* parser goroutine: wildcardCidrs not yet sent
    pIpnet,    \* parser goroutine: ipnet
    pErr,      \* parser goroutine: the outer err ("" is nil)
    outputChan, \* the buffered channel's content
    outClosed, \* close(outputChan) has happened
    wg,        \* the WaitGroup's counter
    stderr,    \* the diagnostics written to os.Stderr
    saved      \* the strings saveToJSON wrote

algebraVars == <<cidrs, deduped, merged, merged2, result, result2>>
queryVars == <<ipStr, queried, matches>>
parseVars == <<text, parsed>>
readerVars == <<records, rIdx, inClosed>>
parserVars == <<pPc, pLine, pWild, pIpnet, pErr>>
chanVars == <<outputChan, outClosed, wg>>
stdinVars == <<readerVars, parserVars, chanVars, stderr, saved>>

vars == <<pc, algebraVars, queryVars, parseVars, stdinVars>>

----------------------------------------------------------------------------
(* Bounds of the model *)

\* longest batch of blocks the algebra is applied to
MaxLen == 3

\* most lines on stdin
MaxRecords == 3

\* capacity of outputChan in the model; main makes it with 100
OutputChanCap == 2

----------------------------------------------------------------------------
(* net.IP, net.IPMask, bytes.Compare as the program uses them *)

RECURSIVE Pow2(_)
Pow2(n) == IF n = 0 THEN 1 ELSE 2 * Pow2(n - 1)

Min(a, b) == IF a < b THEN a ELSE b
Max(a, b) == IF a < b THEN b ELSE a

\* number of one bits of byte i (1..4) of net.CIDRMask(ones, 32)
MaskBits(ones, i) == Max(0, Min(8, ones - 8 * (i - 1)))

\* o & m for a byte o and a mask byte m with k leading one bits
AndMask(o, k) == (o \div Pow2(8 - k)) * Pow2(8 - k)

\* ip.Mask(net.CIDRMask(ones, 32))
MaskIP(ip, ones) == [i \in 1..4 |-> AndMask(ip[i], MaskBits(ones, i))]

\* (*net.IPNet).Contains(ip): byte by byte, both sides masked
Contains(n, ip) ==
    \A i \in 1..4 :
        AndMask(n.IP[i], MaskBits(n.ones, i)) = AndMask(ip[i], MaskBits(n.ones, i))

\* bytes.Compare(a, b) on two 4-byte slices: -1, 0 or 1
RECURSIVE CompareFrom(_, _, _)
CompareFrom(a, b, i) ==
    IF i > 4 THEN 0
    ELSE IF a[i] < b[i] THEN -1
    ELSE IF a[i] > b[i] THEN 1
    ELSE CompareFrom(a, b, i + 1)

bytesCompare(a, b) == CompareFrom(a, b, 1)

\* the less function handed to sort.Slice: by IP bytes alone
lessByIP(x, y) == bytesCompare(x.IP, y.IP) < 0

\* sort.Slice sorts a slice as short as the batches modelled here (MaxLen)
\* by insertion: each element moves left while it is less than its left
\* neighbour, so elements with equal IP keep their input order.
RECURSIVE insertLess(_, _)
insertLess(s, x) ==
    IF s = <<>> \/ ~lessByIP(x, s[Len(s)])
    THEN Append(s, x)
    ELSE Append(insertLess(SubSeq(s, 1, Len(s) - 1), x), s[Len(s)])

RECURSIVE sortSlice(_)
sortSlice(s) ==
    IF s = <<>> THEN <<>>
    ELSE insertLess(sortSlice(SubSeq(s, 1, Len(s) - 1)), s[Len(s)])

----------------------------------------------------------------------------
(* mergeCIDRs *)

Nil == [IP |-> <<>>, ones |-> -1]

\* mergeStep with the receiver and the argument of Contains exchanged
mergeStepSwapped(res, cidr) ==
    IF Len(res) = 0 THEN Append(res, cidr)
    ELSE IF Contains(cidr, res[Len(res)].IP) THEN res
    ELSE Append(res, cidr)

\* one iteration of the loop over the sorted slice
mergeStep(res, cidr) ==
    IF Len(res) = 0 THEN Append(res, cidr)
    ELSE IF Contains(res[Len(res)], cidr.IP) THEN res
    ELSE Append(res, cidr)

RECURSIVE mergeLoop(_, _)
mergeLoop(res, rest) ==
    IF rest = <<>> THEN res
    ELSE mergeLoop(mergeStep(res, Head(rest)), Tail(rest))

\* mergeCIDRs testing each block against its predecessor in the sorted slice
\* instead of the last block kept
mergeCIDRsPrevious(cs) ==
    LET sorted == sortSlice(SelectSeq(cs, LAMBDA c : c # Nil))
        keep == { i \in 1..Len(sorted) : i = 1 \/ ~Contains(sorted[i - 1], sorted[i].IP) }
        RECURSIVE pick(_)
        pick(i) == IF i > Len(sorted) THEN <<>>
                   ELSE (IF i \in keep THEN <<sorted[i]>> ELSE <<>>) \o pick(i + 1)
    IN  pick(1)

mergeCIDRs(cs) ==
    LET validCIDRs == SelectSeq(cs, LAMBDA c : c # Nil)
    IN  mergeLoop(<<>>, sortSlice(validCIDRs))

----------------------------------------------------------------------------
(* aggregateCIDRs, canAggregate, mergeTwoCIDRs *)

canAggregate(a, b) ==
    IF a = Nil \/ b = Nil THEN FALSE
    ELSE IF a.ones # b.ones THEN FALSE
    ELSE LET diff == bytesCompare(a.IP, b.IP)
         IN  diff = 1 \/ diff = -1

mergeTwoCIDRs(a, b) ==
    IF a = Nil THEN b
    ELSE IF b = Nil THEN a
    ELSE LET prefixLen == a.ones - 1
         IN  [IP |-> MaskIP(a.IP, prefixLen), ones |-> prefixLen]

\* index of the first aggregated block cidr can be aggregated with, 0 if none
RECURSIVE firstAggregable(_, _, _)
firstAggregable(aggregated, cidr, i) ==
    IF i > Len(aggregated) THEN 0
    ELSE IF canAggregate(aggregated[i], cidr) THEN i
    ELSE firstAggregable(aggregated, cidr, i + 1)

aggregateStep(aggregated, cidr) ==
    LET i == firstAggregable(aggregated, cidr, 1)
    IN  IF i # 0
        THEN [aggregated EXCEPT ![i] = mergeTwoCIDRs(aggregated[i], cidr)]
        ELSE Append(aggregated, cidr)

RECURSIVE aggregateLoop(_, _)
aggregateLoop(aggregated, rest) ==
    IF rest = <<>> THEN aggregated
    ELSE aggregateLoop(aggregateStep(aggregated, Head(rest)), Tail(rest))

aggregateCIDRs(cs) == aggregateLoop(<<>>, sortSlice(cs))

\* The file's first revision of main, the one that asks the membership
\* question, aggregates with its own canAggregate: same mask and identical IP.
canAggregate_r1(a, b) ==
    IF a = Nil \/ b = Nil THEN FALSE
    ELSE IF a.ones # b.ones THEN FALSE
    ELSE bytesCompare(a.IP, b.IP) = 0

RECURSIVE aggregateLoop_r1(_, _)
aggregateLoop_r1(aggregated, rest) ==
    IF rest = <<>> THEN aggregated
    ELSE LET cidr == Head(rest)
             hits == { i \in 1..Len(aggregated) : canAggregate_r1(aggregated[i], cidr) }
             first == CHOOSE i \in hits : \A j \in hits : i <= j
         IN  aggregateLoop_r1(
                 IF hits # {}
                 THEN [aggregated EXCEPT ![first] = mergeTwoCIDRs(aggregated[first], cidr)]
                 ELSE Append(aggregated, cidr),
                 Tail(rest))

aggregateCIDRs_r1(cs) == aggregateLoop_r1(<<>>, sortSlice(cs))

\* the pairs <<agg, cidr>> the loop of aggregateCIDRs hands to mergeTwoCIDRs
RECURSIVE aggregatedPairsLoop(_, _)
aggregatedPairsLoop(aggregated, rest) ==
    IF rest = <<>> THEN {}
    ELSE LET i == firstAggregable(aggregated, Head(rest), 1)
         IN  (IF i # 0 THEN {<<aggregated[i], Head(rest)>>} ELSE {})
             \cup aggregatedPairsLoop(aggregateStep(aggregated, Head(rest)), Tail(rest))

aggregatedPairs(cs) == aggregatedPairsLoop(<<>>, sortSlice(cs))

----------------------------------------------------------------------------
(* deduplicateCIDRs *)

RECURSIVE dedupLoop(_, _, _)
dedupLoop(seen, uniqueCIDRs, rest) ==
    IF rest = <<>> THEN uniqueCIDRs
    ELSE LET cidr == Head(rest)
         IN  IF cidr \in seen
             THEN dedupLoop(seen, uniqueCIDRs, Tail(rest))
             ELSE dedupLoop(seen \cup {cidr}, Append(uniqueCIDRs, cidr), Tail(rest))

deduplicateCIDRs(cs) == dedupLoop({}, <<>>, cs)

----------------------------------------------------------------------------
(* Text: strings.Split, strings.TrimSpace, strconv, net.ParseCIDR *)

Digits == <<"0", "1", "2", "3", "4", "5", "6", "7", "8", "9">>

IsDigit(c) == \E d \in 1..10 : Digits[d] = c

DigitVal(c) == (CHOOSE d \in 1..10 : Digits[d] = c) - 1

AllDigits(s) == \A i \in 1..Len(s) : IsDigit(s[i])

\* the value of a non-empty run of decimal digits
RECURSIVE DecVal(_)
DecVal(s) ==
    IF s = <<>> THEN 0
    ELSE 10 * DecVal(SubSeq(s, 1, Len(s) - 1)) + DigitVal(s[Len(s)])

\* strconv.Itoa / the %d verb, for n >= 0
RECURSIVE Itoa(_)
Itoa(n) == IF n < 10 THEN <<Digits[n + 1]>>
           ELSE Itoa(n \div 10) \o <<Digits[(n % 10) + 1]>>

\* strings.Contains(s, c) for a one-character c
ContainsChar(s, c) == \E i \in 1..Len(s) : s[i] = c

\* strings.IndexByte: the first position of c in s, 0 if there is none
IndexChar(s, c) ==
    IF ContainsChar(s, c)
    THEN CHOOSE i \in 1..Len(s) : s[i] = c /\ \A j \in 1..(i - 1) : s[j] # c
    ELSE 0

\* strings.Split(s, sep) for a one-character sep
RECURSIVE Split(_, _)
Split(s, sep) ==
    LET i == IndexChar(s, sep)
    IN  IF i = 0 THEN <<s>>
        ELSE <<SubSeq(s, 1, i - 1)>> \o Split(SubSeq(s, i + 1, Len(s)), sep)

IsSpace(c) == c \in {" ", "\t"}

\* strings.TrimSpace
RECURSIVE TrimSpace(_)
TrimSpace(s) ==
    IF s = <<>> THEN s
    ELSE IF IsSpace(s[1]) THEN TrimSpace(Tail(s))
    ELSE IF IsSpace(s[Len(s)]) THEN TrimSpace(SubSeq(s, 1, Len(s) - 1))
    ELSE s

\* ip.String() of an IPv4 address
FormatIP(ip) ==
    Itoa(ip[1]) \o <<".">> \o Itoa(ip[2]) \o <<".">> \o Itoa(ip[3]) \o <<".">> \o Itoa(ip[4])

\* one decimal field of a dotted IPv4 literal: 1 to 3 digits, no leading
\* zero, at most 255
IsOctetText(f) ==
    /\ Len(f) \in 1..3
    /\ AllDigits(f)
    /\ (Len(f) > 1 => f[1] # "0")
    /\ DecVal(f) <= 255

\* net.ParseIP on a dotted IPv4 literal: [ok, IP]
ParseIP(s) ==
    LET fields == Split(s, ".")
    IN  IF Len(fields) = 4 /\ \A i \in 1..4 : IsOctetText(fields[i])
        THEN [ok |-> TRUE, IP |-> [i \in 1..4 |-> DecVal(fields[i])]]
        ELSE [ok |-> FALSE, IP |-> <<>>]

\* net.ParseCIDR: address, "/", decimal mask length 0..32; the network's IP
\* is the address with the host bits masked off
netParseCIDR(s) ==
    LET i == IndexChar(s, "/")
        addr == SubSeq(s, 1, i - 1)
        mask == SubSeq(s, i + 1, Len(s))
        ip == ParseIP(addr)
    IN  IF i = 0 \/ ~ip.ok \/ mask = <<>> \/ ~AllDigits(mask)
        THEN [ok |-> FALSE, net |-> Nil]
        ELSE IF DecVal(mask) > 32
        THEN [ok |-> FALSE, net |-> Nil]
        ELSE [ok |-> TRUE,
              net |-> [IP |-> MaskIP(ip.IP, DecVal(mask)), ones |-> DecVal(mask)]]

----------------------------------------------------------------------------
(* parseCIDR, parseWildcard, parseBinary, ipBelongsToCIDR *)

\* a parser's outcome: err = "" on success
Failure(msg) == [err |-> msg, nets |-> <<>>]
Success(nets) == [err |-> "", nets |-> nets]

parseCIDR(input) ==
    LET r == netParseCIDR(input)
    IN  IF ~r.ok THEN Failure("invalid CIDR block")
        ELSE Success(<<r.net>>)

\* ^((?:\d{1,3}|\*)\.){3}(?:\d{1,3}|\*)$
wildcardRegex(input) ==
    LET fields == Split(input, ".")
    IN  /\ Len(fields) = 4
        /\ \A i \in 1..4 :
              \/ fields[i] = <<"*">>
              \/ Len(fields[i]) \in 1..3 /\ AllDigits(fields[i])

RECURSIVE wildcardRange(_)
wildcardRange(octets) ==
    IF octets = <<>> THEN <<>>
    ELSE (IF Head(octets) = <<"*">> THEN <<"0", ".">> ELSE Head(octets) \o <<".">>)
         \o wildcardRange(Tail(octets))

RECURSIVE wildcardPrefix(_)
wildcardPrefix(octets) ==
    IF octets = <<>> THEN 32
    ELSE wildcardPrefix(Tail(octets)) - (IF Head(octets) = <<"*">> THEN 8 ELSE 0)

parseWildcard(input) ==
    IF ~wildcardRegex(input) THEN Failure("invalid wildcard notation")
    ELSE LET octets == Split(input, ".")
             dotted == wildcardRange(octets)
             ipRange == SubSeq(dotted, 1, Len(dotted) - 1) \o <<"/">>
             prefix == wildcardPrefix(octets)
             cidr == ipRange \o Itoa(prefix)
         IN  parseCIDR(cidr)

\* ^[01]{32}/\d{1,2}$
binaryRegex(input) ==
    /\ Len(input) \in 34..35
    /\ \A i \in 1..32 : input[i] \in {"0", "1"}
    /\ input[33] = "/"
    /\ \A i \in 34..Len(input) : IsDigit(input[i])

\* byte k (1..4) of the address spelled by 32 binary digits
RECURSIVE binaryByte(_, _, _)
binaryByte(binaryIP, k, j) ==
    IF j > 8 THEN 0
    ELSE (IF binaryIP[8 * (k - 1) + j] = "1" THEN Pow2(8 - j) ELSE 0)
         + binaryByte(binaryIP, k, j + 1)

parseBinary(input) ==
    IF ~binaryRegex(input) THEN Failure("invalid binary CIDR notation")
    ELSE LET parts == Split(input, "/")
             binaryIP == parts[1]
             prefix == DecVal(parts[2])
         IN  IF prefix < 0 \/ prefix > 32 THEN Failure("invalid prefix length")
             ELSE LET ip == [k \in 1..4 |-> binaryByte(binaryIP, k, 1)]
                      cidr == FormatIP(ip) \o <<"/">> \o Itoa(prefix)
                  IN  parseCIDR(cidr)

ipBelongsToCIDR(ipText, cs) ==
    LET ip == ParseIP(ipText)
    IN  IF ~ip.ok THEN [err |-> "invalid IP address", nets |-> <<>>]
        ELSE Success(SelectSeq(cs, LAMBDA cidr : Contains(cidr, ip.IP)))

----------------------------------------------------------------------------------------------------------------------------------------
(* The inputs the operations are applied to *)

Block(a, b, c, d, n) == [IP |-> <<a, b, c, d>>, ones |-> n]

\* canonical blocks, as parseCIDR hands them out (host bits masked off)
Pool ==
    { [IP |-> MaskIP(<<192, 168, c, d>>, n), ones |-> n] :
          c \in 0..3, d \in {0, 128}, n \in {23, 24, 25} }
    \cup { Block(10, 0, 0, 0, 24) }

BlockLists == UNION { [1..n -> Pool] : n \in 0..MaxLen }

\* addresses that tell the ranges of the pool, and of their parents, apart
Probes ==
    { <<192, 168, c, d>> : c \in 0..3, d \in {5, 200} }
    \cup { <<10, 0, 0, 1>>, <<10, 0, 1, 1>>, <<172, 16, 0, 1>> }

NotAnAddress == <<"i", "n", "v", "a", "l", "i", "d">>

\* the addresses asked about
QueryProbes ==
    { <<192, 168, 0, 5>>, <<192, 168, 0, 200>>, <<192, 168, 1, 200>>,
      <<192, 168, 3, 5>>, <<10, 0, 0, 1>>, <<172, 16, 0, 1>> }

QueryInputs == { FormatIP(p) : p \in QueryProbes } \cup { NotAnAddress }

\* the fields a dotted text is put together from
FieldPool == { <<"*">>, <<"0">>, <<"1">>, <<"1", "9", "2">>, <<"2", "5", "6">> }

Dotted(fields) ==
    fields[1] \o <<".">> \o fields[2] \o <<".">> \o fields[3] \o <<".">> \o fields[4]

DottedInputs == { Dotted(f) : f \in [1..4 -> FieldPool] }

Bits_192_168_0_0 ==
    <<"1", "1", "0", "0", "0", "0", "0", "0", "1", "0", "1", "0", "1", "0", "0", "0",
      "0", "0", "0", "0", "0", "0", "0", "0", "0", "0", "0", "0", "0", "0", "0", "0">>

ParseInputs ==
    DottedInputs
    \cup { d \o <<"/", "1", "6">> : d \in DottedInputs }
    \cup { <<"1", "9", "2", ".", "1", "6", "8", ".", "*">>,
           Bits_192_168_0_0 \o <<"/", "2", "4">>,
           Bits_192_168_0_0 \o <<"/", "3", "3">>,
           <<"1", ".", "1", ".", "1", ".", "1", "/", "3", "3">> }

----------------------------------------------------------------------------------------------------------------------------------------
(* Spec: the block algebra applied to a batch, as main applies it.  The    *)
(* file holds two revisions of main: the first deduplicates the batch      *)
(* before aggregateCIDRs(mergeCIDRs(cidrs)) and then asks the membership   *)
(* question, the second goes straight to aggregateCIDRs(mergeCIDRs(cidrs)) *)
(* with the mergeCIDRs, canAggregate and mergeTwoCIDRs of lines 271-356.   *)
(* ReMerge and ReAggregate apply a stage to its own output.                *)

NoParse == [err |-> "", nets |-> <<>>]

InitAlgebra ==
    /\ deduped = FALSE
    /\ merged = <<>>
    /\ merged2 = <<>>
    /\ result = <<>>
    /\ result2 = <<>>

InitQuery == ipStr = <<>> /\ queried = <<>> /\ matches = NoParse

InitText == text = <<>> /\ parsed = NoParse

InitGoroutines ==
    /\ rIdx = 0
    /\ inClosed = FALSE
    /\ pPc = "recv"
    /\ pLine = <<>>
    /\ pWild = <<>>
    /\ pIpnet = Nil
    /\ pErr = ""
    /\ outputChan = <<>>
    /\ outClosed = FALSE
    /\ wg = 1
    /\ stderr = <<>>
    /\ saved = <<>>

Init ==
    /\ pc = "input"
    /\ cidrs \in BlockLists
    /\ InitAlgebra
    /\ InitQuery
    /\ InitText
    /\ records = <<>>
    /\ InitGoroutines

\* cidrs = deduplicateCIDRs(cidrs)
Dedup ==
    /\ pc = "input"
    /\ cidrs' = deduplicateCIDRs(cidrs)
    /\ deduped' = TRUE
    /\ pc' = "deduped"
    /\ UNCHANGED <<merged, merged2, result, result2, queryVars, parseVars, stdinVars>>

\* mergeCIDRs(cidrs)
Merge ==
    /\ pc \in {"input", "deduped"}
    /\ merged' = mergeCIDRs(cidrs)
    /\ pc' = "merged"
    /\ UNCHANGED <<cidrs, deduped, merged2, result, result2, queryVars, parseVars, stdinVars>>

\* mergeCIDRs applied to its own output
ReMerge ==
    /\ pc = "merged"
    /\ merged2' = mergeCIDRs(merged)
    /\ pc' = "remerged"
    /\ UNCHANGED <<cidrs, deduped, merged, result, result2, queryVars, parseVars, stdinVars>>

\* aggregateCIDRs(mergeCIDRs(cidrs))
Aggregate ==
    /\ pc = "merged"
    /\ result' = aggregateCIDRs(merged)
    /\ pc' = "aggregated"
    /\ UNCHANGED <<cidrs, deduped, merged, merged2, result2, queryVars, parseVars, stdinVars>>

\* aggregateCIDRs applied to its own output
ReAggregate ==
    /\ pc = "aggregated"
    /\ result2' = aggregateCIDRs(result)
    /\ pc' = "reaggregated"
    /\ UNCHANGED <<cidrs, deduped, merged, merged2, result, queryVars, parseVars, stdinVars>>

\* mergedCIDRs := aggregateCIDRs(mergeCIDRs(cidrs));
\* ipBelongsToCIDR(ipInput, mergedCIDRs), in the revision of main that asks
Query ==
    /\ pc = "merged"
    /\ queried' = aggregateCIDRs_r1(merged)
    /\ \E s \in QueryInputs :
          /\ ipStr' = s
          /\ matches' = ipBelongsToCIDR(s, queried')
    /\ pc' = "queried"
    /\ UNCHANGED <<algebraVars, parseVars, stdinVars>>

Next == Dedup \/ Merge \/ ReMerge \/ Aggregate \/ ReAggregate \/ Query

Spec == Init /\ [][Next]_vars

----------------------------------------------------------------------------
(* SpecParse: each parser applied to one text *)

InitParse ==
    /\ pc = "text"
    /\ text \in ParseInputs
    /\ parsed = NoParse
    /\ cidrs = <<>>
    /\ InitAlgebra
    /\ InitQuery
    /\ records = <<>>
    /\ InitGoroutines

CallParseCIDR ==
    /\ pc = "text"
    /\ parsed' = parseCIDR(text)
    /\ pc' = "parseCIDR"
    /\ UNCHANGED <<text, algebraVars, queryVars, stdinVars>>

CallParseWildcard ==
    /\ pc = "text"
    /\ parsed' = parseWildcard(text)
    /\ pc' = "parseWildcard"
    /\ UNCHANGED <<text, algebraVars, queryVars, stdinVars>>

CallParseBinary ==
    /\ pc = "text"
    /\ parsed' = parseBinary(text)
    /\ pc' = "parseBinary"
    /\ UNCHANGED <<text, algebraVars, queryVars, stdinVars>>

NextParse == CallParseCIDR \/ CallParseWildcard \/ CallParseBinary

SpecParse == InitParse /\ [][NextParse]_vars

----------------------------------------------------------------------------
(* SpecStdin: main in stdin mode, its three goroutines and its consumer loop *)

Line_192_168_0_0_24 ==
    <<"1", "9", "2", ".", "1", "6", "8", ".", "0", ".", "0", "/", "2", "4">>
Line_192_168_1_0_24 ==
    <<"1", "9", "2", ".", "1", "6", "8", ".", "1", ".", "0", "/", "2", "4">>
Line_22_33_44_55_24 ==
    <<"2", "2", ".", "3", "3", ".", "4", "4", ".", "5", "5", "/", "2", "4">>
Line_192_168_star_star ==
    <<"1", "9", "2", ".", "1", "6", "8", ".", "*", ".", "*">>
Line_junk == <<" ", "x", "/", "9">>
Line_blank == <<" ">>

LinePool ==
    { Line_192_168_0_0_24, Line_192_168_1_0_24, Line_22_33_44_55_24,
      Line_192_168_star_star, Line_junk, Line_blank }

RecordLists == UNION { [1..n -> LinePool] : n \in 0..MaxRecords }

InitStdin ==
    /\ pc = "range"
    /\ records \in RecordLists
    /\ cidrs = <<>>
    /\ InitAlgebra
    /\ InitQuery
    /\ InitText
    /\ InitGoroutines

\* reader: inputChan <- scanner.Text(), received by the parser's range loop
\* (inputChan is unbuffered: send and receive are one step)
Handoff ==
    /\ rIdx < Len(records)
    /\ pPc = "recv"
    /\ rIdx' = rIdx + 1
    /\ pLine' = records[rIdx + 1]
    /\ pPc' = "parse"
    /\ UNCHANGED <<pc, algebraVars, queryVars, parseVars, records, inClosed,
                   pWild, pIpnet, pErr, chanVars, stderr, saved>>

\* reader: scanner.Scan() returned false; close(inputChan)
ReaderClose ==
    /\ rIdx = Len(records)
    /\ ~inClosed
    /\ inClosed' = TRUE
    /\ UNCHANGED <<pc, algebraVars, queryVars, parseVars, records, rIdx,
                   parserVars, chanVars, stderr, saved>>

\* parser: the body of the loop up to its first channel operation
ParserParse ==
    /\ pPc = "parse"
    /\ LET line == TrimSpace(pLine)
       IN  /\ pLine' = line
           /\ IF line = <<>>
              THEN /\ pPc' = "recv"
                   /\ UNCHANGED <<pWild, pIpnet, pErr>>
              ELSE IF ContainsChar(line, "*")
              THEN LET r == parseWildcard(line)
                   IN  /\ pWild' = (IF r.err = "" THEN r.nets ELSE <<>>)
                       /\ pIpnet' = Nil
                       /\ pErr' = ""
                       /\ pPc' = "sendWild"
              ELSE LET r == IF ContainsChar(line, "0") \/ ContainsChar(line, "1")
                            THEN parseBinary(line)
                            ELSE parseCIDR(line)
                   IN  /\ pWild' = <<>>
                       /\ pIpnet' = (IF r.err = "" THEN r.nets[1] ELSE Nil)
                       /\ pErr' = r.err
                       /\ pPc' = "check"
    /\ UNCHANGED <<pc, algebraVars, queryVars, parseVars, readerVars, chanVars,
                   stderr, saved>>

\* parser: outputChan <- wc, for each wildcard block
ParserSendWild ==
    /\ pPc = "sendWild"
    /\ IF pWild = <<>>
       THEN /\ pPc' = "check"
            /\ UNCHANGED <<pWild, outputChan>>
       ELSE /\ Len(outputChan) < OutputChanCap
            /\ outputChan' = Append(outputChan, Head(pWild))
            /\ pWild' = Tail(pWild)
            /\ pPc' = "sendWild"
    /\ UNCHANGED <<pc, algebraVars, queryVars, parseVars, readerVars, pLine,
                   pIpnet, pErr, outClosed, wg, stderr, saved>>

\* parser: if err == nil && ipnet != nil { outputChan <- ipnet }
ParserSend ==
    /\ pPc = "check"
    /\ pErr = "" /\ pIpnet # Nil
    /\ Len(outputChan) < OutputChanCap
    /\ outputChan' = Append(outputChan, pIpnet)
    /\ pPc' = "recv"
    /\ UNCHANGED <<pc, algebraVars, queryVars, parseVars, readerVars, pLine,
                   pWild, pIpnet, pErr, outClosed, wg, stderr, saved>>

\* parser: else { fmt.Fprintf(os.Stderr, "Error: %v\n", err) }
ParserReport ==
    /\ pPc = "check"
    /\ ~(pErr = "" /\ pIpnet # Nil)
    /\ stderr' = Append(stderr, [line |-> pLine, err |-> pErr])
    /\ pPc' = "recv"
    /\ UNCHANGED <<pc, algebraVars, queryVars, parseVars, readerVars, pLine,
                   pWild, pIpnet, pErr, chanVars, saved>>

\* parser: inputChan is closed and drained; the deferred wg.Done()
ParserDone ==
    /\ pPc = "recv"
    /\ inClosed
    /\ pPc' = "done"
    /\ wg' = wg - 1
    /\ UNCHANGED <<pc, algebraVars, queryVars, parseVars, readerVars, pLine,
                   pWild, pIpnet, pErr, outputChan, outClosed, stderr, saved>>

\* the closer closing outputChan without waiting for the WaitGroup
CloserCloseNoWait ==
    /\ ~outClosed
    /\ outClosed' = TRUE
    /\ UNCHANGED <<pc, algebraVars, queryVars, parseVars, readerVars, parserVars,
                   outputChan, wg, stderr, saved>>

\* closer: wg.Wait() returned; close(outputChan)
CloserClose ==
    /\ wg = 0
    /\ ~outClosed
    /\ outClosed' = TRUE
    /\ UNCHANGED <<pc, algebraVars, queryVars, parseVars, readerVars, parserVars,
                   outputChan, wg, stderr, saved>>

\* main: one iteration of for ipnet := range outputChan
MainReceive ==
    /\ pc = "range"
    /\ outputChan # <<>>
    /\ cidrs' = (IF Head(outputChan) # Nil THEN Append(cidrs, Head(outputChan)) ELSE cidrs)
    /\ outputChan' = Tail(outputChan)
    /\ UNCHANGED <<pc, deduped, merged, merged2, result, result2, queryVars,
                   parseVars, readerVars, parserVars, outClosed, wg, stderr, saved>>

\* main: outputChan is closed and drained; the range loop ends
MainRangeEnd ==
    /\ pc = "range"
    /\ outputChan = <<>>
    /\ outClosed
    /\ pc' = "input"
    /\ UNCHANGED <<algebraVars, queryVars, parseVars, stdinVars>>

\* cidr.String()
cidrString(cidr) == FormatIP(cidr.IP) \o <<"/">> \o Itoa(cidr.ones)

\* saveToJSON(outputFile, result): the strings it encodes
saveToJSON(cs) ==
    LET kept == SelectSeq(cs, LAMBDA c : c # Nil)
    IN  [i \in 1..Len(kept) |-> cidrString(kept[i])]

Save ==
    /\ pc = "aggregated"
    /\ saved' = saveToJSON(result)
    /\ pc' = "saved"
    /\ UNCHANGED <<algebraVars, queryVars, parseVars, readerVars, parserVars,
                   chanVars, stderr>>

\* what the parser goroutine's if / else if / else makes of a trimmed,
\* non-empty line: the parser chosen by the characters the line contains
parseLine(line) ==
    IF ContainsChar(line, "*") THEN parseWildcard(line)
    ELSE IF ContainsChar(line, "0") \/ ContainsChar(line, "1") THEN parseBinary(line)
    ELSE parseCIDR(line)

NextStdin ==
    \/ Handoff \/ ReaderClose
    \/ ParserParse \/ ParserSendWild \/ ParserSend \/ ParserReport \/ ParserDone
    \/ CloserClose
    \/ MainReceive \/ MainRangeEnd \/ Merge \/ Aggregate \/ Save

SpecStdin == InitStdin /\ [][NextStdin]_vars

----------------------------------------------------------------------------
(* Scheduling: the Go runtime runs every goroutine that is able to step *)

\* the reader goroutine
ReaderSteps == Handoff \/ ReaderClose

\* the parser goroutine's channel operations, its report and its return
ParserSteps == Handoff \/ ParserSendWild \/ ParserSend \/ ParserReport \/ ParserDone

\* the closer goroutine
CloserSteps == CloserClose

\* main: the range loop, and the write of the output file
MainSteps == MainReceive \/ MainRangeEnd \/ Save

\* the parser goroutine's computation: ParserParse is enabled exactly when
\* pPc = "parse" and every ParserParse step leaves "parse", so that
\* WF_vars(ParserParse) is the formula []<>(pPc # "parse")
ParserComputes == []<>(pPc # "parse")

\* main's computations, in the same way: WF_vars(Merge) and
\* WF_vars(Aggregate)
MainComputes ==
    /\ []<>(pc \notin {"input", "deduped"})
    /\ []<>(pc # "merged")

FairStdin ==
    /\ SpecStdin
    /\ WF_vars(ReaderSteps)
    /\ WF_vars(ParserSteps)
    /\ ParserComputes
    /\ WF_vars(CloserSteps)
    /\ WF_vars(MainSteps)
    /\ MainComputes

----------------------------------------------------------------------------
(* Vocabulary of the properties *)

Range(s) == { s[i] : i \in 1..Len(s) }

Canonical(x) == MaskIP(x.IP, x.ones) = x.IP

\* the probe addresses inside some block of the list
Covered(s) == { a \in Probes : \E i \in 1..Len(s) : Contains(s[i], a) }

\* x's range is a strict subset of y's
StrictSubset(x, y) == x.ones > y.ones /\ Contains(y, x.IP)

Disjoint(x, y) == ~Contains(x, y.IP) /\ ~Contains(y, x.IP)

\* bit-aligned siblings: same length p >= 1, same parent of length p-1, and
\* canonical bases that differ (then by exactly one block of 2^(32-p))
Siblings(x, y) ==
    /\ x.ones = y.ones
    /\ x.ones >= 1
    /\ Canonical(x) /\ Canonical(y)
    /\ MaskIP(x.IP, x.ones - 1) = MaskIP(y.IP, y.ones - 1)
    /\ x.IP # y.IP

\* ascending by base address, ties by ascending prefix length, strictly
BlockBefore(x, y) ==
    \/ bytesCompare(x.IP, y.IP) < 0
    \/ bytesCompare(x.IP, y.IP) = 0 /\ x.ones < y.ones

\* the fields of a four-field dotted text
IsNumberField(f) == f # <<>> /\ AllDigits(f)

WildcardBeforeConcrete(t) ==
    LET fields == Split(t, ".")
    IN  /\ Len(fields) = 4
        /\ \E i, j \in 1..4 : i < j /\ fields[i] = <<"*">> /\ IsNumberField(fields[j])

----------------------------------------------------------------------------
(* The claims *)

\* C1: Aggregate's result is in maximal-aggregation form: no two of its
\* blocks are bit-aligned siblings.
C1_MaximalAggregation ==
    pc = "aggregated" =>
        \A i, j \in 1..Len(result) : ~Siblings(result[i], result[j])

\* C2: Aggregate replaces two blocks by a parent only if they are bit-aligned
\* siblings, the parent having the left sibling's base and prefix p-1, so the
\* addresses covered by its output are those covered by its input.
C2_AggregateOnlySiblings ==
    pc = "aggregated" =>
        /\ \A pair \in aggregatedPairs(merged) :
              /\ Siblings(pair[1], pair[2])
              /\ mergeTwoCIDRs(pair[1], pair[2]) =
                    [IP |-> (IF bytesCompare(pair[1].IP, pair[2].IP) < 0
                             THEN pair[1].IP ELSE pair[2].IP),
                     ones |-> pair[1].ones - 1]
        /\ Covered(result) = Covered(merged)

\* C3: Merge neither loses nor gains an address, and keeps every block of a
\* pairwise disjoint batch.
C3_MergePreservesCoverage ==
    pc = "merged" =>
        /\ Covered(merged) = Covered(cidrs)
        /\ (\A i, j \in 1..Len(cidrs) : i # j => Disjoint(cidrs[i], cidrs[j]))
              => (Range(merged) = Range(cidrs) /\ Len(merged) = Len(cidrs))

\* C4: Merge's result holds no two identical blocks and no block that is a
\* strict subset of another; of two input blocks with the same base and
\* different prefix lengths the narrower is dropped and the broader stays
\* covered by a block at least as broad, whatever their input order.
C4_MergeKeepsBroader ==
    pc = "merged" =>
        /\ \A i, j \in 1..Len(merged) :
              i # j => (merged[i] # merged[j] /\ ~StrictSubset(merged[i], merged[j]))
        /\ \A i, j \in 1..Len(cidrs) :
              (cidrs[i].IP = cidrs[j].IP /\ cidrs[i].ones < cidrs[j].ones) =>
                 /\ cidrs[j] \notin Range(merged)
                 /\ \E k \in 1..Len(merged) :
                       /\ merged[k].ones <= cidrs[i].ones
                       /\ Contains(merged[k], cidrs[i].IP)

\* C5: Aggregate is idempotent: a second call returns the sequence the first
\* call returned.
C5_AggregateIdempotent ==
    pc = "reaggregated" => result2 = result

\* C6: Merge is idempotent: mergeCIDRs of its own output is that output, in
\* the same order.
C6_MergeIdempotent ==
    pc = "remerged" => merged2 = merged

\* a run where Merge dropped a block, kept several, and was applied again
C6_Witness ==
    /\ pc = "remerged"
    /\ Len(merged) >= 2
    /\ Len(merged) < Len(cidrs)
    /\ merged2 = merged

\* C7: what Dedup -> Merge -> Aggregate hands back is sorted ascending by
\* base address, ties by ascending prefix length, with no two equal blocks.
C7_PipelineSorted ==
    (pc = "aggregated" /\ deduped) =>
        \A i \in 1..(Len(result) - 1) : BlockBefore(result[i], result[i + 1])

\* C8: parseWildcard fails on every four-field text in which a wildcard
\* field precedes a number field; it succeeds only when the wildcards are a
\* trailing suffix.
C8_NonContiguousWildcardFails ==
    pc = "parseWildcard" =>
        /\ WildcardBeforeConcrete(text) => parsed.err # ""
        /\ parsed.err = "" => ~WildcardBeforeConcrete(text)

\* C9: the list main passes to ipBelongsToCIDR is the output of Merge, and
\* on it ipBelongsToCIDR returns for a well-formed address, without error,
\* exactly the blocks whose base is the address masked to their prefix
\* length, and at most one of them.
C9_AtMostOneMatch ==
    pc = "queried" =>
        /\ queried = merged
        /\ \A a \in QueryProbes :
              ipStr = FormatIP(a) =>
                  /\ matches.err = ""
                  /\ Len(matches.nets) <= 1
                  /\ \A i \in 1..Len(queried) :
                        (queried[i] \in Range(matches.nets))
                            <=> (MaskIP(a, queried[i].ones) = queried[i].IP)

\* a query that found its block among several, and one that found none
C9_Witness ==
    /\ pc = "queried"
    /\ Len(merged) >= 2
    /\ Len(cidrs) > Len(merged)
    /\ ipStr = FormatIP(<<192, 168, 1, 200>>)
    /\ Len(matches.nets) = 1
    /\ matches.nets[1] = Block(192, 168, 1, 128, 25)

\* C10: every stdin record that is valid CIDR notation contributes its block
\* to the batch; the records 192.168.0.0/24 and 192.168.1.0/24 give the
\* output 192.168.0.0/23.
C10_ValidCIDRRecognized ==
    /\ pc \in {"input", "merged", "aggregated", "saved"} =>
          \A i \in 1..Len(records) :
              netParseCIDR(records[i]).ok =>
                  netParseCIDR(records[i]).net \in Range(cidrs)
    /\ (pc = "saved" /\ records = <<Line_192_168_0_0_24, Line_192_168_1_0_24>>) =>
          saved = << <<"1", "9", "2", ".", "1", "6", "8", ".", "0", ".", "0", "/", "2", "3">> >>

\* the trimmed, non-empty texts among the records
RecordTexts ==
    { TrimSpace(records[i]) : i \in 1..Len(records) } \ { <<>> }

\* how many records carry the text t
RecordCount(t) == Cardinality({ i \in 1..Len(records) : TrimSpace(records[i]) = t })

\* the diagnostics written for the text t
DiagnosticsOf(t) == { i \in 1..Len(stderr) : stderr[i].line = t }

\* how many blocks of the batch equal b
BatchCount(b) == Cardinality({ i \in 1..Len(cidrs) : cidrs[i] = b })

\* how many blocks equal to b the records that parse yield together
RECURSIVE YieldCount(_, _)
YieldCount(b, i) ==
    IF i > Len(records) THEN 0
    ELSE LET t == TrimSpace(records[i])
             r == IF t = <<>> THEN NoParse ELSE parseLine(t)
         IN  Cardinality({ k \in 1..Len(r.nets) : r.err = "" /\ r.nets[k] = b })
             + YieldCount(b, i + 1)

\* C11: when the range loop of main has ended, every record has been
\* processed and each non-empty record had exactly one outcome: it parsed,
\* its blocks are in the batch and no diagnostic names it; or it failed, it
\* gave no block and one diagnostic carries its parse error.
C11_OneOutcomePerRecord ==
    pc = "input" =>
        /\ rIdx = Len(records)
        /\ \A t \in RecordTexts :
              IF parseLine(t).err = ""
              THEN DiagnosticsOf(t) = {}
              ELSE /\ Cardinality(DiagnosticsOf(t)) = RecordCount(t)
                   /\ \A i \in DiagnosticsOf(t) : stderr[i].err = parseLine(t).err
        /\ \A b \in Range(cidrs) \cup { parseLine(t).nets[1] : t \in { u \in RecordTexts : parseLine(u).err = "" } } :
              BatchCount(b) = YieldCount(b, 1)

\* the blocks the parser goroutine sends for the records from the i-th on,
\* in the order it sends them
RECURSIVE EmittedFrom(_)
EmittedFrom(i) ==
    IF i > Len(records) THEN <<>>
    ELSE LET t == TrimSpace(records[i])
             r == IF t = <<>> THEN NoParse ELSE parseLine(t)
         IN  (IF r.err = "" THEN r.nets ELSE <<>>) \o EmittedFrom(i + 1)

\* the range loop of main has ended with everything in place for mergeCIDRs
BatchComplete ==
    /\ rIdx = Len(records)
    /\ inClosed
    /\ pPc = "done"
    /\ wg = 0
    /\ outClosed
    /\ outputChan = <<>>
    /\ cidrs = EmittedFrom(1)

\* C12: under every interleaving of reader, parser, closer and main, once
\* the input has ended the run leaves the range loop and goes on to
\* mergeCIDRs; whenever it has left the loop every line has been parsed, all
\* goroutines have finished and the batch holds every block the parser
\* sent, each once, in order; so no partial batch is merged and nobody
\* blocks forever, also with more blocks than outputChan holds.
C12_CompleteBatchBeforeMerge ==
    /\ [](pc # "range" => BatchComplete)
    /\ (inClosed ~> (pc # "range"))
    /\ <>(pc = "saved")

\* a run with more blocks than outputChan holds, where the parser stood
\* blocked on the full channel, has reached the call of mergeCIDRs
C12_Witness ==
    /\ pc = "input"
    /\ Len(records) = MaxRecords
    /\ Len(cidrs) > OutputChanCap
    /\ BatchComplete

\* the parser goroutine blocked on outputChan <- ipnet, the buffer being full
C12_ParserBlocked ==
    /\ pPc = "check" /\ pErr = "" /\ pIpnet # Nil
    /\ Len(outputChan) = OutputChanCap

====
